---- MODULE Spec2Model ----
(***************************************************************************)
(* TheanoBanditAlgo (hyperopt/base.py): the idxs/vals store, the id        *)
(* counter, and the operations next_id, recall, record and suggest.        *)
(*                                                                         *)
(* db_idxs and db_vals are Python lists with one list per active slot;     *)
(* they are modelled as sequences of sequences.  The strategy              *)
(* (theano_suggest) is abstract in the source: its output is an input of   *)
(* the Suggest action.  Y_list and Y_status are only handed to the         *)
(* strategy and are not modelled.                                          *)
(***************************************************************************)
EXTENDS Integers, Sequences, FiniteSets, TLC

VARIABLES
    _next_id,   \* self._next_id
    db_idxs,    \* self.db_idxs: per slot, the list of recorded ids
    db_vals,    \* self.db_vals: per slot, the list of recorded values
    op,         \* the last call made on the instance: arguments and outcome
    th,         \* per thread: the position and the locals of its suggest call
    lock,       \* the thread inside the critical section, or 0
    locking,    \* whether suggest calls run as one critical section
    saved,      \* the pickle file written by the driver, or its absence
    hist        \* history: the sample counts of the successful suggest
                \* calls summed, and the ids next_id has returned

vars == <<_next_id, db_idxs, db_vals, op, th, lock, locking, saved, hist>>

----------------------------------------------------------------------------
\* Bounds of the model.

NumSlots == 2       \* number of active slots (len(self.s_idxs))
MaxPos == 2         \* largest local position an input may reference
MaxEntries == 2     \* largest number of (position, value) pairs in one input
MaxNextId == 2      \* mutating calls are made while _next_id < MaxNextId
MaxReq == 2         \* longest idlist handed to recall, longest history
MaxRaceEntries == 1 \* largest strategy output of a concurrent suggest call

\* The largest id the store can hold under these bounds.
MaxId == MaxNextId - 1 + MaxPos

Slots == 1..NumSlots
Positions == 0..MaxPos
Vals == {"u", "v"}
Unset == "unset"

SeqsUpTo(S, n) == UNION {[1..k -> S] : k \in 0..n}

Max(a, b) == IF a >= b THEN a ELSE b

Range(s) == {s[k] : k \in 1..Len(s)}

NoDups(s) == Cardinality(Range(s)) = Len(s)

RECURSIVE SumLen(_, _)
SumLen(ss, i) == IF i > Len(ss) THEN 0 ELSE Len(ss[i]) + SumLen(ss, i + 1)

\* The (idxs, vals) arguments of record: per slot a position vector and a
\* value vector of the same length.
RecordInputs ==
    {inp \in [idxs : [Slots -> SeqsUpTo(Positions, MaxEntries)],
             vals : [Slots -> SeqsUpTo(Vals, MaxEntries)]] :
        /\ SumLen(inp.idxs, 1) <= MaxEntries
        /\ \A i \in Slots : Len(inp.vals[i]) = Len(inp.idxs[i])}

\* What a strategy returns: positions are not repeated within one slot.
StrategyOutputs == {inp \in RecordInputs : \A i \in Slots : NoDups(inp.idxs[i])}

IdLists == SeqsUpTo(0..MaxId, MaxReq)

\* The histories a driver can hand to suggest: documents carry ids that were
\* issued before.
Histories == SeqsUpTo(0..(_next_id - 1), MaxReq)
SampleCounts == 0..(MaxPos + 1)

EmptyPerSlot == [i \in Slots |-> <<>>]

----------------------------------------------------------------------------
\* list(sorted(set(ids)))

RECURSIVE SortedSet(_)
SortedSet(S) ==
    IF S = {} THEN <<>>
    ELSE LET m == CHOOSE x \in S : \A y \in S : x <= y
         IN <<m>> \o SortedSet(S \ {m})

----------------------------------------------------------------------------
\* recall

\* The dictionary with the ids numbered from 1.
iddict_from_one(idlist) ==
    [orig \in Range(idlist) |->
        CHOOSE k \in 1..Len(idlist) :
            /\ idlist[k] = orig
            /\ \A j \in 1..Len(idlist) : idlist[j] = orig => j <= k]

\* The dictionary mapping every requested id to itself.
iddict_identity(idlist) == [orig \in Range(idlist) |-> orig]

\* dict([(orig, new) for (new, orig) in enumerate(idlist)]): a later pair
\* replaces an earlier one with the same key.
iddict(idlist) ==
    [orig \in Range(idlist) |->
        (CHOOSE k \in 1..Len(idlist) :
            /\ idlist[k] = orig
            /\ \A j \in 1..Len(idlist) : idlist[j] = orig => j <= k) - 1]

\* The duplicate check left out.
dups_in_off(d, idlist) == FALSE

\* if len(iddict) != len(idlist): raise NotImplementedError('dups in idlist')
dups_in(d, idlist) == Cardinality(DOMAIN d) # Len(idlist)

\* The pairs in the order of the requested ids instead of storage order.
RECURSIVE ii_vv_by_position(_, _, _)
ii_vv_by_position(d, idxs, vals) ==
    LET n == IF Len(idxs) <= Len(vals) THEN Len(idxs) ELSE Len(vals)
        hit == {j \in 1..n : idxs[j] \in DOMAIN d}
    IN IF hit = {} THEN <<>>
       ELSE LET j == CHOOSE x \in hit :
                        \A y \in hit : d[idxs[x]] < d[idxs[y]]
                                       \/ (d[idxs[x]] = d[idxs[y]] /\ x <= y)
                cut(q) == [m \in 1..(Len(q) - 1) |->
                              IF m < j THEN q[m] ELSE q[m + 1]]
            IN <<<<d[idxs[j]], vals[j]>>>>
                   \o ii_vv_by_position(d, cut(idxs), cut(vals))

\* [(iddict[ii], vv) for (ii, vv) in zip(idxs, vals) if ii in iddict]
RECURSIVE ii_vv(_, _, _)
ii_vv(d, idxs, vals) ==
    IF idxs = <<>> \/ vals = <<>> THEN <<>>
    ELSE LET rest == ii_vv(d, Tail(idxs), Tail(vals))
         IN IF Head(idxs) \in DOMAIN d
            THEN <<<<d[Head(idxs)], Head(vals)>>>> \o rest
            ELSE rest

recall(idlist) ==
    IF 0 < Len(idlist)
    THEN LET d == iddict(idlist)
         IN IF dups_in(d, idlist)
            THEN [status |-> "NotImplementedError",
                  rval_idxs |-> <<>>, rval_vals |-> <<>>]
            ELSE IF \E i \in Slots : Len(db_idxs[i]) # Len(db_vals[i])
            THEN [status |-> "AssertionError",
                  rval_idxs |-> <<>>, rval_vals |-> <<>>]
            ELSE [status |-> "ok",
                  rval_idxs |-> [i \in Slots |->
                      LET pv == ii_vv(d, db_idxs[i], db_vals[i])
                      IN [k \in 1..Len(pv) |-> pv[k][1]]],
                  rval_vals |-> [i \in Slots |->
                      LET pv == ii_vv(d, db_idxs[i], db_vals[i])
                      IN [k \in 1..Len(pv) |-> pv[k][2]]]]
    ELSE [status |-> "ok", rval_idxs |-> EmptyPerSlot, rval_vals |-> EmptyPerSlot]

----------------------------------------------------------------------------
\* record

\* The inner loop with N = max(N, ii).
RECURSIVE record_inner_max_ii(_, _, _)
record_inner_max_ii(st, i, idxvec) ==
    IF idxvec = <<>> THEN st
    ELSE LET ii == Head(idxvec)
         IN record_inner_max_ii([st EXCEPT !.N = Max(@, ii),
                                           !.new_ids = Append(@, ii + _next_id),
                                           !.db_idxs[i] = Append(@, ii + _next_id)],
                                i, Tail(idxvec))

\* The inner loop skipping an id the slot already holds.
RECURSIVE record_inner_skip_dups(_, _, _)
record_inner_skip_dups(st, i, idxvec) ==
    IF idxvec = <<>> THEN st
    ELSE LET ii == Head(idxvec)
         IN IF ii + _next_id \in Range(st.db_idxs[i])
            THEN record_inner_skip_dups([st EXCEPT !.N = Max(@, ii + 1)],
                                        i, Tail(idxvec))
            ELSE record_inner_skip_dups(
                     [st EXCEPT !.N = Max(@, ii + 1),
                                !.new_ids = Append(@, ii + _next_id),
                                !.db_idxs[i] = Append(@, ii + _next_id)],
                     i, Tail(idxvec))

\* The inner loop appending every id to the first slot's store.
RECURSIVE record_inner_first_slot(_, _, _)
record_inner_first_slot(st, i, idxvec) ==
    IF idxvec = <<>> THEN st
    ELSE LET ii == Head(idxvec)
         IN record_inner_first_slot(
                [st EXCEPT !.N = Max(@, ii + 1),
                           !.new_ids = Append(@, ii + _next_id),
                           !.db_idxs[1] = Append(@, ii + _next_id)],
                i, Tail(idxvec))

\* for ii in idxvec: N = max(N, ii+1); new_ids.append(ii + self._next_id);
\*                   self.db_idxs[i].append(ii + self._next_id)
RECURSIVE record_inner(_, _, _)
record_inner(st, i, idxvec) ==
    IF idxvec = <<>> THEN st
    ELSE LET ii == Head(idxvec)
         IN record_inner([st EXCEPT !.N = Max(@, ii + 1),
                                    !.new_ids = Append(@, ii + _next_id),
                                    !.db_idxs[i] = Append(@, ii + _next_id)],
                         i, Tail(idxvec))

\* The outer loop with self.db_vals[i].append(valvec): the vector becomes
\* one element of the slot's values.
RECURSIVE record_outer_append_vec(_, _, _, _)
record_outer_append_vec(st, i, idxs, vals) ==
    IF i > Len(idxs) \/ i > Len(vals) THEN st
    ELSE record_outer_append_vec([record_inner(st, i, idxs[i])
                                     EXCEPT !.db_vals[i] = Append(@, vals[i])],
                                 i + 1, idxs, vals)

\* The outer loop assigning valvec to the slot's values instead of
\* extending them.
RECURSIVE record_outer_overwrite(_, _, _, _)
record_outer_overwrite(st, i, idxs, vals) ==
    IF i > Len(idxs) \/ i > Len(vals) THEN st
    ELSE record_outer_overwrite([record_inner(st, i, idxs[i])
                                    EXCEPT !.db_vals[i] = vals[i]],
                                i + 1, idxs, vals)

\* for i, (idxvec, valvec) in enumerate(zip(idxs, vals)):
\*     <inner loop>; self.db_vals[i].extend(valvec)
RECURSIVE record_outer(_, _, _, _)
record_outer(st, i, idxs, vals) ==
    IF i > Len(idxs) \/ i > Len(vals) THEN st
    ELSE record_outer([record_inner(st, i, idxs[i])
                          EXCEPT !.db_vals[i] = @ \o vals[i]],
                      i + 1, idxs, vals)

\* record with the counter left where it was.
record_no_advance(idxs, vals) ==
    LET st == record_outer([N |-> 0, new_ids |-> <<>>,
                            db_idxs |-> db_idxs, db_vals |-> db_vals],
                           1, idxs, vals)
    IN [db_idxs |-> st.db_idxs,
        db_vals |-> st.db_vals,
        next_id |-> _next_id,
        new_ids |-> SortedSet(Range(st.new_ids))]

\* record returning new_ids as collected, without sorted(set(...)).
record_raw_ids(idxs, vals) ==
    LET st == record_outer([N |-> 0, new_ids |-> <<>>,
                            db_idxs |-> db_idxs, db_vals |-> db_vals],
                           1, idxs, vals)
    IN [db_idxs |-> st.db_idxs,
        db_vals |-> st.db_vals,
        next_id |-> _next_id + st.N,
        new_ids |-> st.new_ids]

\* record returning every id of the block it advanced the counter by.
record_ids_of_block(idxs, vals) ==
    LET st == record_outer([N |-> 0, new_ids |-> <<>>,
                            db_idxs |-> db_idxs, db_vals |-> db_vals],
                           1, idxs, vals)
    IN [db_idxs |-> st.db_idxs,
        db_vals |-> st.db_vals,
        next_id |-> _next_id + st.N,
        new_ids |-> [n \in 1..st.N |-> _next_id + n - 1]]

\* The store, the counter and the return value after record(idxs, vals).
record(idxs, vals) ==
    LET st == record_outer([N |-> 0, new_ids |-> <<>>,
                            db_idxs |-> db_idxs, db_vals |-> db_vals],
                           1, idxs, vals)
    IN [db_idxs |-> st.db_idxs,
        db_vals |-> st.db_vals,
        next_id |-> _next_id + st.N,
        new_ids |-> SortedSet(Range(st.new_ids))]

----------------------------------------------------------------------------
\* template.idxs_vals_to_dict_list: one document per local position, holding
\* for every slot the value at that position or Unset.

RECURSIVE MaxOf(_)
MaxOf(S) == IF S = {} THEN -1
            ELSE LET x == CHOOSE y \in S : TRUE IN Max(x, MaxOf(S \ {x}))

Referenced(idxs) == UNION {Range(idxs[i]) : i \in DOMAIN idxs}

idxs_vals_to_dict_list(idxs, vals) ==
    [n \in 1..(MaxOf(Referenced(idxs)) + 1) |->
        [i \in Slots |->
            IF \E k \in 1..Len(idxs[i]) : idxs[i][k] = n - 1
            THEN vals[i][CHOOSE k \in 1..Len(idxs[i]) : idxs[i][k] = n - 1]
            ELSE Unset]]

----------------------------------------------------------------------------
\* The record of a call.

NoCall ==
    [name |-> "none", status |-> "ok", phase |-> "Idle",
     idlist |-> <<>>, idxs |-> EmptyPerSlot, vals |-> EmptyPerSlot, N |-> 0,
     ids |-> <<>>, docs |-> <<>>, rval_idxs |-> <<>>, rval_vals |-> <<>>]

\* The threads that call suggest concurrently.
Threads == {1, 2}

\* A thread that has not called suggest yet.
IdleThread ==
    [pc |-> "idle", status |-> "ok", idxs |-> EmptyPerSlot,
     vals |-> EmptyPerSlot, N |-> 0, i |-> 1, k |-> 1, n |-> 0,
     new_ids |-> <<>>, tmp |-> 0, stored |-> {}]

\* No pickle file exists before the first run of the driver.
\* Nothing has been called yet.
NoHistory == [sumN |-> 0, next_ids |-> {}]

\* No pickle file exists before the first run of the driver.
NoFile == [state |-> "none", _next_id |-> 0, db_idxs |-> EmptyPerSlot,
           db_vals |-> EmptyPerSlot, hist |-> NoHistory, outcome |-> "ok"]

Init ==
    /\ _next_id = 0
    /\ db_idxs = EmptyPerSlot
    /\ db_vals = EmptyPerSlot
    /\ op = NoCall
    /\ th = [t \in Threads |-> IdleThread]
    /\ lock = 0
    /\ locking = FALSE
    /\ saved = NoFile
    /\ hist = NoHistory

\* next_id returning the counter without advancing it.
NextId_no_advance ==
    /\ op.name = "none"
    /\ _next_id < MaxNextId
    /\ op' = [NoCall EXCEPT !.name = "next_id", !.ids = <<_next_id>>]
    /\ hist' = [hist EXCEPT !.next_ids = @ \cup {_next_id}]
    /\ UNCHANGED <<_next_id, db_idxs, db_vals, th, lock, locking, saved>>

\* rval = self._next_id; self._next_id += 1; return rval
NextId ==
    /\ op.name = "none"
    /\ _next_id < MaxNextId
    /\ _next_id' = _next_id + 1
    /\ op' = [NoCall EXCEPT !.name = "next_id", !.ids = <<_next_id>>]
    /\ hist' = [hist EXCEPT !.next_ids = @ \cup {_next_id}]
    /\ UNCHANGED <<db_idxs, db_vals, th, lock, locking, saved>>

Recall(idlist) ==
    LET r == recall(idlist)
    IN /\ op' = [NoCall EXCEPT !.name = "recall", !.idlist = idlist,
                               !.status = r.status,
                               !.rval_idxs = r.rval_idxs,
                               !.rval_vals = r.rval_vals]
       /\ UNCHANGED <<_next_id, db_idxs, db_vals, th, lock, locking, saved, hist>>

Record(idxs, vals) ==
    LET r == record(idxs, vals)
    IN /\ db_idxs' = r.db_idxs
       /\ db_vals' = r.db_vals
       /\ _next_id' = r.next_id
       /\ op' = [NoCall EXCEPT !.name = "record", !.idxs = idxs, !.vals = vals,
                               !.ids = r.new_ids]
       /\ UNCHANGED <<th, lock, locking, saved, hist>>

\* The first assertion of suggest left out.
ids_assert_off(ids, N) == TRUE

\* assert len(ids) == N
ids_assert(ids, N) == Len(ids) = N

\* The second assertion of suggest left out.
rval_assert_off(rval, N) == TRUE

\* assert len(rval) == N
rval_assert(rval, N) == Len(rval) = N

\* The documents tagged with their index in rval instead of the id
\* record returned for them.
tag_by_index(ids, rval) ==
    [n \in 1..(IF Len(ids) <= Len(rval) THEN Len(ids) ELSE Len(rval)) |->
        [TBA_id |-> n - 1, doc |-> rval[n]]]

\* for rid, r in zip(ids, rval): r['TBA_id'] = int(rid)
tag(ids, rval) ==
    [n \in 1..(IF Len(ids) <= Len(rval) THEN Len(ids) ELSE Len(rval)) |->
        [TBA_id |-> ids[n], doc |-> rval[n]]]

\* suggest(X_list, Y_list, Y_status, N); idlist is [X['TBA_id'] for X in
\* X_list] and (idxs, vals) is what theano_suggest returns.
Suggest(idlist, idxs, vals, N) ==
    LET x == recall(idlist)
        r == record(idxs, vals)
        rval == idxs_vals_to_dict_list(idxs, vals)
        call == [NoCall EXCEPT !.name = "suggest", !.idlist = idlist, !.N = N]
    IN /\ UNCHANGED <<th, lock, locking, saved>>
       /\ IF x.status # "ok"
          THEN /\ op' = [call EXCEPT !.status = x.status, !.phase = "Recalling"]
               /\ UNCHANGED <<_next_id, db_idxs, db_vals>>
          ELSE /\ db_idxs' = r.db_idxs
               /\ db_vals' = r.db_vals
               /\ _next_id' = r.next_id
               /\ op' =
                    LET c == [call EXCEPT !.idxs = idxs, !.vals = vals,
                                          !.rval_idxs = x.rval_idxs,
                                          !.rval_vals = x.rval_vals]
                    IN IF ~ids_assert(r.new_ids, N)
                       THEN [c EXCEPT !.status = "AssertionError",
                                      !.phase = "Recording"]
                       ELSE IF ~rval_assert(rval, N)
                       THEN [c EXCEPT !.status = "AssertionError",
                                      !.phase = "Encoding", !.ids = r.new_ids]
                       ELSE [c EXCEPT !.ids = r.new_ids,
                                      !.docs = tag(r.new_ids, rval)]
       /\ hist' = IF op'.status = "ok"
                  THEN [hist EXCEPT !.sumN = @ + N]
                  ELSE hist

\* The call returns or raises: the caller has its outcome and the instance
\* is ready for the next call.
Return ==
    /\ op.name # "none"
    /\ op' = NoCall
    /\ UNCHANGED <<_next_id, db_idxs, db_vals, th, lock, locking, saved, hist>>

DoRecall ==
    /\ op.name = "none"
    /\ \E idlist \in IdLists : Recall(idlist)

DoRecord ==
    /\ op.name = "none"
    /\ _next_id < MaxNextId
    /\ \E inp \in RecordInputs : Record(inp.idxs, inp.vals)

DoSuggest ==
    /\ op.name = "none"
    /\ _next_id < MaxNextId
    /\ \E idlist \in Histories : \E out \in StrategyOutputs :
          \E N \in SampleCounts : Suggest(idlist, out.idxs, out.vals, N)

Next == NextId \/ DoRecall \/ DoRecord \/ DoSuggest \/ Return

Spec == Init /\ [][Next]_vars

\* The instance is used through suggest only.
NextSuggest == DoSuggest \/ Return

SpecSuggest == Init /\ [][NextSuggest]_vars

\* Every call of suggest succeeds: the strategy returns an assignment
\* that passes both assertions and the history repeats no id.
DoSuggestOk == DoSuggest /\ op'.status = "ok"

NextSuggestOk == DoSuggestOk \/ Return

SpecSuggestOk == Init /\ [][NextSuggestOk]_vars

----------------------------------------------------------------------------
\* The driver.  main_search loads the pickled experiment when the file
\* exists, runs it, and dumps it in a finally clause: the file is written
\* when run returns and also when a call inside run raised.  run is
\* abstract, so a run is any sequence of calls, ended at any point.  The
\* history of the instance goes with it.

\* finally: cPickle.dump(self, open(save_loc, 'wb')); outcome is how the
\* last call of the run ended.
Dump ==
    /\ saved' = [state |-> "saved", _next_id |-> _next_id,
                 db_idxs |-> db_idxs, db_vals |-> db_vals, hist |-> hist,
                 outcome |-> op.status]
    /\ saved' # saved
    /\ UNCHANGED <<_next_id, db_idxs, db_vals, op, th, lock, locking, hist>>

\* The counter is not part of the pickle: the loaded instance starts
\* from 0 as a constructed one does.
Load_without_counter ==
    /\ saved.state # "none"
    /\ _next_id' = 0
    /\ db_idxs' = saved.db_idxs
    /\ db_vals' = saved.db_vals
    /\ op' = NoCall
    /\ hist' = saved.hist
    /\ saved' = [saved EXCEPT !.state = "restored"]
    /\ UNCHANGED <<th, lock, locking>>

\* self = cPickle.load(handle), in a new process
Load ==
    /\ saved.state # "none"
    /\ _next_id' = saved._next_id
    /\ db_idxs' = saved.db_idxs
    /\ db_vals' = saved.db_vals
    /\ op' = NoCall
    /\ hist' = saved.hist
    /\ saved' = [saved EXCEPT !.state = "restored"]
    /\ UNCHANGED <<th, lock, locking>>

NextDriver == NextId \/ DoRecord \/ DoSuggest \/ Return \/ Dump \/ Load

SpecDriver == Init /\ [][NextDriver]_vars

----------------------------------------------------------------------------
\* Two threads call suggest on one instance.  The interpreter may switch
\* threads between any two statements, so record is taken statement by
\* statement; self._next_id += N is a read followed by a write.  With
\* locking, a call holds the lock from its first statement to its last.

RaceOutputs ==
    {out \in StrategyOutputs : SumLen(out.idxs, 1) <= MaxRaceEntries}

\* X_idxs, X_vals = self.recall(...), entered under the lock when locking.
T_recall(t) ==
    /\ th[t].pc = "idle"
    /\ locking => lock = 0
    /\ \E idlist \in Histories :
         LET x == recall(idlist)
         IN IF x.status # "ok"
            THEN /\ th' = [th EXCEPT ![t].pc = "done", ![t].status = x.status]
                 /\ lock' = lock
            ELSE /\ th' = [th EXCEPT ![t].pc = "strategize"]
                 /\ lock' = IF locking THEN t ELSE lock
    /\ UNCHANGED <<_next_id, db_idxs, db_vals, op, locking, saved, hist>>

\* r_idxs, r_vals = self.theano_suggest(...); record starts: new_ids = [],
\* N = 0.
T_strategize(t) ==
    /\ th[t].pc = "strategize"
    /\ \E out \in RaceOutputs : \E N \in SampleCounts :
         th' = [th EXCEPT ![t].pc = "loop", ![t].idxs = out.idxs,
                          ![t].vals = out.vals, ![t].N = N,
                          ![t].i = 1, ![t].k = 1, ![t].n = 0,
                          ![t].new_ids = <<>>]
    /\ UNCHANGED <<_next_id, db_idxs, db_vals, op, lock, locking, saved, hist>>

\* N = max(N, ii+1); new_ids.append(ii + self._next_id)
T_ids(t) ==
    /\ th[t].pc = "loop"
    /\ th[t].i <= NumSlots
    /\ th[t].k <= Len(th[t].idxs[th[t].i])
    /\ LET ii == th[t].idxs[th[t].i][th[t].k]
       IN th' = [th EXCEPT ![t].pc = "append",
                           ![t].n = Max(@, ii + 1),
                           ![t].new_ids = Append(@, ii + _next_id)]
    /\ UNCHANGED <<_next_id, db_idxs, db_vals, op, lock, locking, saved, hist>>

\* self.db_idxs[i].append(ii + self._next_id)
T_append(t) ==
    /\ th[t].pc = "append"
    /\ LET ii == th[t].idxs[th[t].i][th[t].k]
       IN /\ db_idxs' = [db_idxs EXCEPT ![th[t].i] = Append(@, ii + _next_id)]
          /\ th' = [th EXCEPT ![t].pc = "loop", ![t].k = @ + 1,
                              ![t].stored = @ \cup {ii + _next_id}]
    /\ UNCHANGED <<_next_id, db_vals, op, lock, locking, saved, hist>>

\* self.db_vals[i].extend(valvec), and on to the next slot
T_extend(t) ==
    /\ th[t].pc = "loop"
    /\ th[t].i <= NumSlots
    /\ th[t].k > Len(th[t].idxs[th[t].i])
    /\ db_vals' = [db_vals EXCEPT ![th[t].i] = @ \o th[t].vals[th[t].i]]
    /\ th' = [th EXCEPT ![t].i = @ + 1, ![t].k = 1]
    /\ UNCHANGED <<_next_id, db_idxs, op, lock, locking, saved, hist>>

\* self._next_id += N: the read
T_load(t) ==
    /\ th[t].pc = "loop"
    /\ th[t].i > NumSlots
    /\ th' = [th EXCEPT ![t].pc = "store", ![t].tmp = _next_id]
    /\ UNCHANGED <<_next_id, db_idxs, db_vals, op, lock, locking, saved, hist>>

\* The write of self._next_id += N with the counter written back unchanged.
T_store_no_advance(t) ==
    /\ th[t].pc = "store"
    /\ _next_id' = th[t].tmp
    /\ th' = [th EXCEPT ![t].pc = "finish"]
    /\ UNCHANGED <<db_idxs, db_vals, op, lock, locking, saved, hist>>

\* self._next_id += N: the write
T_store(t) ==
    /\ th[t].pc = "store"
    /\ _next_id' = th[t].tmp + th[t].n
    /\ th' = [th EXCEPT ![t].pc = "finish"]
    /\ UNCHANGED <<db_idxs, db_vals, op, lock, locking, saved, hist>>

\* The end of suggest advancing the counter by the sample count once more.
T_finish_advances(t) ==
    /\ th[t].pc = "finish"
    /\ LET ids == SortedSet(Range(th[t].new_ids))
           rval == idxs_vals_to_dict_list(th[t].idxs, th[t].vals)
       IN th' = [th EXCEPT ![t].pc = "done",
                           ![t].new_ids = ids,
                           ![t].status =
                               IF ids_assert(ids, th[t].N) /\ rval_assert(rval, th[t].N)
                               THEN "ok" ELSE "AssertionError"]
    /\ lock' = IF lock = t THEN 0 ELSE lock
    /\ _next_id' = _next_id + th[t].N
    /\ UNCHANGED <<db_idxs, db_vals, op, locking, saved, hist>>

\* new_ids = list(sorted(set(new_ids))), the assertions and the tagging of
\* suggest; the call leaves the critical section.
T_finish(t) ==
    /\ th[t].pc = "finish"
    /\ LET ids == SortedSet(Range(th[t].new_ids))
           rval == idxs_vals_to_dict_list(th[t].idxs, th[t].vals)
       IN th' = [th EXCEPT ![t].pc = "done",
                           ![t].new_ids = ids,
                           ![t].status =
                               IF ids_assert(ids, th[t].N) /\ rval_assert(rval, th[t].N)
                               THEN "ok" ELSE "AssertionError"]
    /\ lock' = IF lock = t THEN 0 ELSE lock
    /\ UNCHANGED <<_next_id, db_idxs, db_vals, op, locking, saved, hist>>

InitConc ==
    /\ _next_id = 0
    /\ db_idxs = EmptyPerSlot
    /\ db_vals = EmptyPerSlot
    /\ op = NoCall
    /\ th = [t \in Threads |-> IdleThread]
    /\ lock = 0
    /\ locking \in BOOLEAN
    /\ saved = NoFile
    /\ hist = NoHistory

NextConc ==
    \E t \in Threads :
        \/ T_recall(t)
        \/ T_strategize(t)
        \/ T_ids(t)
        \/ T_append(t)
        \/ T_extend(t)
        \/ T_load(t)
        \/ T_store(t)
        \/ T_finish(t)

SpecConc == InitConc /\ [][NextConc]_vars

----------------------------------------------------------------------------
\* Properties.

StoredIds == UNION {Range(db_idxs[i]) : i \in Slots}

\* The ids a step appends to slot i.
Appended(i) ==
    {db_idxs'[i][k] : k \in (Len(db_idxs[i]) + 1)..Len(db_idxs'[i])}

StoreUnchanged == UNCHANGED <<_next_id, db_idxs, db_vals>>

\* C1: under suggest calls only, no slot holds the same id in two entries
\* and no call records an id that an earlier call recorded.
C1_NoIdRecordedTwice ==
    [][/\ \A i \in Slots : NoDups(db_idxs'[i])
       /\ \A i \in Slots : Appended(i) \cap StoredIds = {}]_vars

\* A suggest call has recorded ids on top of ids of an earlier call.
C1_Witness ==
    /\ op.name = "suggest" /\ op.status = "ok" /\ Len(op.ids) >= 2
    /\ \E i \in Slots : \E k \in 1..Len(db_idxs[i]) : db_idxs[i][k] < op.ids[1]

\* C2: the counter is strictly greater than every id in the store, after
\* calls that return and after calls that fail.
C2_CounterAboveStoredIds ==
    \A i \in Slots : \A k \in 1..Len(db_idxs[i]) : db_idxs[i][k] < _next_id

\* A suggest call failed after recording.
C2_Witness ==
    /\ op.name = "suggest" /\ op.status = "AssertionError"
    /\ op.phase = "Recording" /\ StoredIds # {}

\* C3: a suggest call whose strategy output does not reference every local
\* position 0..N-1 fails and leaves the counter and every slot's store as
\* they were before the call.
C3_FailedSuggestChangesNothing ==
    [][(/\ op'.name = "suggest" /\ op'.phase # "Recalling"
        /\ ~((0..(op'.N - 1)) \subseteq Referenced(op'.idxs)))
       => (op'.status # "ok" /\ StoreUnchanged)]_vars

\* C4: suggest returns documents only if the strategy output references
\* exactly the positions 0..N-1; for any other strategy output the call
\* fails with an AssertionError.
C4_DocumentsOnlyForExactCover ==
    (op.name = "suggest" /\ op.phase # "Recalling") =>
        /\ op.status = "ok" => Referenced(op.idxs) = 0..(op.N - 1)
        /\ Referenced(op.idxs) # 0..(op.N - 1) =>
              (op.status = "AssertionError" /\ op.docs = <<>>)

\* suggest returned two documents.
C4_Witness ==
    /\ op.name = "suggest" /\ op.status = "ok"
    /\ op.N = 2 /\ Len(op.docs) = 2

\* Two threads have stored entries under the same id.
Aliased == th[1].stored \cap th[2].stored # {}

\* C5: when every suggest call runs as one critical section, two calls
\* never record entries under the same id; without it they can.
C5_NoAliasUnderLock == locking => ~Aliased

\* Without the critical section both calls completed and share an id.
C5_Witness ==
    /\ ~locking /\ Aliased
    /\ \A t \in Threads : th[t].pc = "done" /\ th[t].status = "ok"

\* The local position recall gave to its k-th returned pair of slot i names
\* a requested id.
Requested(i, k) == op.idlist[op.rval_idxs[i][k] + 1]

\* C6: for a duplicate-free idlist, every pair recall returns for a slot is
\* an entry of that slot's store whose id was requested, renumbered to the
\* index of the id in idlist, and the positions returned are exactly the
\* indices of the requested ids the slot holds.
C6_RecallCorrect ==
    (op.name = "recall" /\ NoDups(op.idlist)) =>
        /\ op.status = "ok"
        /\ \A i \in Slots :
            /\ Len(op.rval_idxs[i]) = Len(op.rval_vals[i])
            /\ \A k \in 1..Len(op.rval_idxs[i]) :
                /\ op.rval_idxs[i][k] \in 0..(Len(op.idlist) - 1)
                /\ \E j \in 1..Len(db_idxs[i]) :
                    /\ db_idxs[i][j] = Requested(i, k)
                    /\ db_vals[i][j] = op.rval_vals[i][k]
            /\ Range(op.rval_idxs[i]) =
                   {q \in 0..(Len(op.idlist) - 1) :
                       op.idlist[q + 1] \in Range(db_idxs[i])}

\* Of two requested ids a slot holds the second only; it comes back as
\* local position 1.
C6_Witness ==
    /\ op.name = "recall" /\ op.status = "ok"
    /\ Len(op.idlist) = 2 /\ NoDups(op.idlist)
    /\ \E i \in Slots :
        /\ op.idlist[1] \notin Range(db_idxs[i])
        /\ op.rval_idxs[i] = <<1>>

\* The store indices of slot i that hold a requested id.
Matching(i) == {j \in 1..Len(db_idxs[i]) : db_idxs[i][j] \in Range(op.idlist)}

\* The k-th smallest element of a set of numbers.
Nth(S, k) == CHOOSE j \in S : Cardinality({x \in S : x < j}) = k - 1

\* The orderings of a duplicate-free list.
Reorderings(seq) ==
    {q \in [1..Len(seq) -> Range(seq)] : Range(q) = Range(seq)}

\* C7: per slot, the k-th pair recall returns is the k-th store entry, in
\* storage order, whose id was requested; reordering idlist changes the
\* position numbers only, not the entries returned, their order or values.
C7_RecallInStorageOrder ==
    (op.name = "recall" /\ op.status = "ok" /\ NoDups(op.idlist)) =>
        \A i \in Slots :
            /\ Len(op.rval_vals[i]) = Cardinality(Matching(i))
            /\ Len(op.rval_idxs[i]) = Cardinality(Matching(i))
            /\ \A k \in 1..Cardinality(Matching(i)) :
                /\ op.rval_vals[i][k] = db_vals[i][Nth(Matching(i), k)]
                /\ op.rval_idxs[i][k] \in 0..(Len(op.idlist) - 1)
                /\ Requested(i, k) = db_idxs[i][Nth(Matching(i), k)]
            /\ \A q \in Reorderings(op.idlist) :
                LET r == recall(q)
                IN /\ r.rval_vals[i] = op.rval_vals[i]
                   /\ Len(r.rval_idxs[i]) = Len(op.rval_idxs[i])
                   /\ \A k \in 1..Len(r.rval_idxs[i]) :
                        q[r.rval_idxs[i][k] + 1] = Requested(i, k)

\* The ids were requested in the opposite of their storage order and came
\* back in storage order.
C7_Witness ==
    /\ op.name = "recall" /\ op.status = "ok" /\ Len(op.idlist) = 2
    /\ \E i \in Slots :
        /\ op.rval_idxs[i] = <<1, 0>>
        /\ op.rval_vals[i] = <<"u", "v">>
        /\ db_vals[i] = <<"u", "v">>

\* C8: recall with a repeated id in idlist raises and changes nothing; a
\* suggest call whose history repeats an id fails in recall, before the
\* strategy is called and before anything is recorded.
C8_DuplicateIdsRejected ==
    [][(op'.name \in {"recall", "suggest"} /\ ~NoDups(op'.idlist)) =>
          /\ op'.status = "NotImplementedError"
          /\ StoreUnchanged
          /\ op'.name = "suggest" =>
                (op'.phase = "Recalling" /\ op'.idxs = EmptyPerSlot
                    /\ op'.ids = <<>> /\ op'.docs = <<>>)]_vars

\* suggest was handed a history that repeats an id of the store.
C8_Witness ==
    /\ op.name = "suggest" /\ op.status = "NotImplementedError"
    /\ Len(op.idlist) = 2 /\ op.idlist[1] = op.idlist[2]
    /\ op.idlist[1] \in StoredIds

\* The call being made runs record on op'.idxs, op'.vals.
Records == op'.name = "record" \/ (op'.name = "suggest" /\ op'.phase # "Recalling")

\* C9: record appends to every slot's store, after the entries it holds,
\* one entry (position + offset, value) per input pair, in input order,
\* offset being the counter when record was called; repeated positions
\* are appended like any other.
C9_RecordAppendsEveryPair ==
    [][Records =>
        \A i \in Slots :
            /\ Len(db_idxs'[i]) = Len(db_idxs[i]) + Len(op'.idxs[i])
            /\ Len(db_vals'[i]) = Len(db_vals[i]) + Len(op'.vals[i])
            /\ \A j \in 1..Len(db_idxs[i]) : db_idxs'[i][j] = db_idxs[i][j]
            /\ \A j \in 1..Len(db_vals[i]) : db_vals'[i][j] = db_vals[i][j]
            /\ \A k \in 1..Len(op'.idxs[i]) :
                /\ db_idxs'[i][Len(db_idxs[i]) + k] = op'.idxs[i][k] + _next_id
                /\ db_vals'[i][Len(db_vals[i]) + k] = op'.vals[i][k]]_vars

\* record was handed the same position twice for one slot, with different
\* values, on a store that held entries, and stored both.
C9_Witness ==
    /\ op.name = "record"
    /\ \E i \in Slots :
        /\ Len(op.idxs[i]) = 2 /\ op.idxs[i][1] = op.idxs[i][2]
        /\ op.vals[i] = <<"u", "v">>
        /\ Len(db_idxs[i]) > 2
        /\ db_idxs[i][Len(db_idxs[i])] = db_idxs[i][Len(db_idxs[i]) - 1]

\* C10: record returns, in ascending order and without repeats, the ids
\* position + offset of the positions any slot references, and advances the
\* counter by 1 + the largest referenced position, or by 0 when no position
\* is referenced.
C10_RecordReturnAndAdvance ==
    [][op'.name = "record" =>
        LET R == Referenced(op'.idxs)
        IN /\ \A k \in 1..(Len(op'.ids) - 1) : op'.ids[k] < op'.ids[k + 1]
           /\ Range(op'.ids) = {q + _next_id : q \in R}
           /\ R = {} => _next_id' = _next_id
           /\ \A m \in R : (\A y \in R : y <= m) => _next_id' = _next_id + m + 1]_vars

\* Both slots reference position 2 and nothing else: one id comes back and
\* the counter has moved by 3, to one past that id.
C10_Witness ==
    /\ op.name = "record"
    /\ Len(op.idxs[1]) + Len(op.idxs[2]) = 2
    /\ \A i \in Slots : 2 \in Range(op.idxs[i])
    /\ Len(op.ids) = 1
    /\ _next_id = op.ids[1] + 1

IsPrefix(s, t) == Len(s) <= Len(t) /\ SubSeq(t, 1, Len(s)) = s

\* recall([id]) succeeds and returns value v for slot i.
Retrievable(i, id, v) ==
    LET r == recall(<<id>>)
    IN /\ r.status = "ok"
       /\ \E m \in 1..Len(r.rval_idxs[i]) :
             r.rval_idxs[i][m] = 0 /\ r.rval_vals[i][m] = v

\* C11: across every call (next_id, recall, record, suggest, succeeding or
\* failing) every slot's store before the call is a prefix of its store
\* after it, and every (id, value) held before is returned by recall
\* afterwards.
C11_HistoryImmutable ==
    [][\A i \in Slots :
          /\ IsPrefix(db_idxs[i], db_idxs'[i])
          /\ IsPrefix(db_vals[i], db_vals'[i])
          /\ \A k \in 1..Len(db_idxs[i]) :
                \A e \in {<<db_idxs[i][k], db_vals[i][k]>>} :
                    Retrievable(i, e[1], e[2])']_vars

\* A failed suggest has appended to a slot that held entries before.
C11_Witness ==
    /\ op.name = "suggest"
    /\ op.status = "AssertionError"
    /\ op.phase = "Recording"
    /\ \E i \in Slots : /\ Len(op.idxs[i]) > 0
                        /\ Len(db_idxs[i]) > Len(op.idxs[i])

\* C12: in every reachable state, after any sequence of next_id, recall,
\* record and suggest calls whose assignments pair every position with one
\* value, every slot holds as many ids as values, and the equal-length
\* assertion of recall never fails.
C12_StoresAligned ==
    /\ \A i \in Slots : Len(db_idxs[i]) = Len(db_vals[i])
    /\ op.name \in {"recall", "suggest"} /\ op.status = "AssertionError"
          => op.phase \in {"Recording", "Encoding"}

\* recall has succeeded on a store in which a slot holds two entries.
C12_Witness ==
    /\ op.name = "recall"
    /\ op.status = "ok"
    /\ op.idlist # <<>>
    /\ \E i \in Slots : Len(db_idxs[i]) = 2 /\ Len(db_vals[i]) = 2

\* C13: when every suggest call since construction has succeeded, with
\* sample counts N1..Nk, the j-th call returns Nj documents, the document
\* of local position p tagged N1 + ... + N(j-1) + p, and the counter after
\* it is N1 + ... + Nj.
C13_TagsFollowSampleCounts ==
    [][/\ _next_id' = hist'.sumN
       /\ op'.name = "suggest" =>
            /\ Len(op'.docs) = op'.N
            /\ hist'.sumN = hist.sumN + op'.N
            /\ \A p \in 0..(op'.N - 1) :
                  /\ op'.docs[p + 1].TBA_id = hist.sumN + p
                  /\ op'.docs[p + 1].doc =
                        idxs_vals_to_dict_list(op'.idxs, op'.vals)[p + 1]]_vars

\* The third call, of two samples, follows calls of zero and one sample.
C13_Witness ==
    /\ op.name = "suggest"
    /\ op.status = "ok"
    /\ op.N = 2
    /\ hist.sumN = 3
    /\ op.idlist = <<0>>
    /\ op.docs[1].TBA_id = 1 /\ op.docs[2].TBA_id = 2

\* The tags of the documents a suggest call returned, in returned order.
Tags == [n \in 1..Len(op.docs) |-> op.docs[n].TBA_id]

\* C14: after a successful suggest, recall with the tags of the returned
\* documents, in returned order, succeeds and yields for every slot the
\* local positions and the values the strategy produced for that slot, in
\* the strategy's order.
C14_SuggestRecallRoundTrip ==
    op.name = "suggest" /\ op.status = "ok" =>
        LET r == recall(Tags)
        IN /\ r.status = "ok"
           /\ r.rval_idxs = op.idxs
           /\ r.rval_vals = op.vals

\* The strategy gave a slot the positions 1, 0 in that order, in a batch
\* recorded after an earlier one.
C14_Witness ==
    /\ op.name = "suggest"
    /\ op.status = "ok"
    /\ \E i \in Slots : op.idxs[i] = <<1, 0>> /\ op.vals[i] = <<"u", "v">>
    /\ _next_id = 3

\* C15: a successful suggest appends to a slot's store an entry with id
\* offset + p, p a local position of the batch, exactly when the strategy's
\* assignment for that slot references p, and appends no other id.
C15_StoreGainsReferencedOnly ==
    [][op'.name = "suggest" /\ op'.status = "ok" =>
          \A i \in Slots :
             /\ \A p \in 0..(op'.N - 1) :
                   (_next_id + p \in Appended(i)) <=> (p \in Range(op'.idxs[i]))
             /\ Appended(i) \subseteq {_next_id + p : p \in 0..(op'.N - 1)}]_vars

\* A batch of two in which each slot is active for one candidate only.
C15_Witness ==
    /\ op.name = "suggest"
    /\ op.status = "ok"
    /\ op.N = 2
    /\ op.idxs = <<<<0>>, <<1>>>>
    /\ db_idxs[1] = <<_next_id - 2>>
    /\ db_idxs[2] = <<_next_id - 1>>

\* The ids of the store that was loaded.
RestoredIds == UNION {Range(saved.db_idxs[i]) : i \in Slots}

\* The ids a call hands out: those record appends, and the one next_id
\* returns.
Issued ==
    UNION {Appended(i) : i \in Slots}
        \cup (IF op'.name = "next_id" THEN Range(op'.ids) ELSE {})

\* C16: once the instance has been loaded from the file the driver dumped,
\* whenever the run that dumped it ended (after any call, returned or
\* raised), no next_id, record or suggest call hands out an id that the
\* loaded store holds.
C16_RestoredIdsNotReissued ==
    [][saved.state = "restored" /\ op.name = "none" /\ op'.name # "none"
          => Issued \cap RestoredIds = {}]_vars

\* The file was dumped after a call that raised and left entries in the
\* store; the loaded instance has recorded a new entry.
C16_Witness ==
    /\ saved.state = "restored"
    /\ saved.outcome = "AssertionError"
    /\ RestoredIds # {}
    /\ op.name = "record"
    /\ op.ids # <<>>
    /\ op.ids[1] = saved._next_id

\* C17: next_id returns the counter and advances it by one; over any
\* sequence of next_id, recall, record and suggest calls, an id next_id has
\* returned is not returned by next_id again, is not appended to a store
\* or returned by record or suggest afterwards, and is in no store.
C17_NextIdIssuesOnce ==
    [][/\ op'.name = "next_id" =>
            /\ op'.ids = <<_next_id>>
            /\ _next_id' = _next_id + 1
            /\ _next_id \notin hist.next_ids
       /\ op'.name \in {"record", "suggest"} /\ op.name = "none" =>
            /\ \A i \in Slots : Appended(i) \cap hist.next_ids = {}
            /\ Range(op'.ids) \cap hist.next_ids = {}
       /\ hist'.next_ids \cap StoredIds' = {}]_vars

\* next_id returned 0, and a later suggest recorded the ids 1 and 2.
C17_Witness ==
    /\ op.name = "suggest"
    /\ op.status = "ok"
    /\ hist.next_ids = {0}
    /\ op.ids = <<1, 2>>
    /\ StoredIds = {1, 2}

\* The local positions the assignment of the call being made references.
Called == UNION {Range(op'.idxs[i]) : i \in Slots}

\* 1 + the largest referenced position, 0 when none is referenced.
batch_size ==
    IF Called = {} THEN 0
    ELSE 1 + CHOOSE p \in Called : \A q \in Called : q <= p

\* C18: record returns exactly batch_size ids if and only if the referenced
\* positions are exactly 0..batch_size-1, and when a position below the
\* largest referenced one is referenced by no slot it returns fewer ids
\* than the amount it advances the counter by.
C18_FullBatchIffExactCover ==
    [][op'.name = "record" /\ op.name = "none" =>
          /\ Len(op'.ids) = batch_size <=> Called = 0..(batch_size - 1)
          /\ (\E p \in 0..(batch_size - 1) : p \notin Called)
                => Len(op'.ids) < _next_id' - _next_id]_vars

\* record was given the positions 0 and 2, returned two ids and advanced
\* the counter by three.
C18_Witness ==
    /\ op.name = "record"
    /\ UNION {Range(op.idxs[i]) : i \in Slots} = {0, 2}
    /\ Len(op.ids) = 2
    /\ _next_id = op.ids[1] + 3
    /\ op.ids[2] = op.ids[1] + 2

\* The positions of a suggest call at which its next statement belongs to
\* the loops of record or to self._next_id += N.
InRecord == {"loop", "append", "store"}

\* C19: a statement of suggest that is not one of record's (recall with any
\* id list, succeeding or failing, the strategy invocation, the assertions
\* and the encoding of the documents) leaves every slot's store and the
\* counter as they were.
C19_OnlyRecordChangesState ==
    [][\A t \in Threads :
          th'[t] # th[t] /\ th[t].pc \notin InRecord => StoreUnchanged]_vars

\* One call has recorded and returned; the other's recall was given a
\* repeated id of that store and raised.
C19_Witness ==
    \E t, u \in Threads :
        /\ th[t].pc = "done" /\ th[t].status = "NotImplementedError"
        /\ th[u].pc = "done" /\ th[u].status = "ok"
        /\ th[u].stored # {}
        /\ StoredIds = th[u].stored

\* C20: when every suggest call since construction has succeeded, the ids
\* held by at least one slot's store are exactly 0..counter-1.
C20_NoGapsBelowCounter == StoredIds = 0..(_next_id - 1)

\* Two successful calls, of one and of two samples, have filled 0..2.
C20_Witness ==
    /\ op.name = "suggest"
    /\ op.status = "ok"
    /\ op.N = 2
    /\ _next_id = 3
    /\ StoredIds = {0, 1, 2}

====
